---- MODULE Spec2Model ----
(***************************************************************************)
(* Model of src/solution.py: the curve-fragment pipeline                   *)
(*   read_csv_data -> plot_shapes -> apply_convex_hull ->                  *)
(*   symmetry_analysis -> complete_shapes -> save_to_svg                   *)
(* driven by process_multiple_files over zip(csv_paths, svg_paths), after  *)
(* the module-level assert on the two lists' lengths.                      *)
(*                                                                         *)
(* Coordinates are integers (exactly representable doubles).  A point is   *)
(* <<x, y>>, a sub-path (numpy array of rows) a sequence of points, a      *)
(* shape a sequence of sub-paths, shape_groups a sequence of shapes.  A    *)
(* CSV record is <<shapeId, subPathId, x, y>>.  Python indices are 0-based *)
(* and the sequences here 1-based.                                         *)
(***************************************************************************)
EXTENDS Integers, Sequences, FiniteSets, TLC

VARIABLES csv_paths, svg_paths, pc, error, i, records, shape_groups, h,
          drawing, max_width, max_height, scale_factor, artifacts, log

vars == <<csv_paths, svg_paths, pc, error, i, records, shape_groups, h,
          drawing, max_width, max_height, scale_factor, artifacts, log>>

----------------------------------------------------------------------------
(* Bounds of the model *)

\* longest csv_paths / svg_paths list
MaxPairs == 2
\* most points of one generated sub-path of the geometry inputs
MaxPts == 3
\* most records of one generated file of the grouping inputs
MaxRecs == 3
\* most shapes of the one-point-per-shape inputs (more than the palette)
MaxWide == 8

----------------------------------------------------------------------------
(* Generic helpers *)

Range(s) == {s[k] : k \in 1..Len(s)}

Abs(n) == IF n < 0 THEN -n ELSE n

Min2(a, b) == IF a <= b THEN a ELSE b

Max2(a, b) == IF a >= b THEN a ELSE b

SetMin(S) == CHOOSE m \in S : \A n \in S : m <= n

SetMax(S) == CHOOSE m \in S : \A n \in S : m >= n

Last(s) == s[Len(s)]

SeqsUpTo(S, n) == UNION {[1..k -> S] : k \in 0..n}

\* s rotated left by k places
Rotate(s, k) ==
  IF Len(s) = 0 THEN s
  ELSE [n \in 1..Len(s) |-> s[((n - 1 + k) % Len(s)) + 1]]

----------------------------------------------------------------------------
(* colors, line 9 *)

colors == <<"#FF5733", "#33FF57", "#3357FF", "#FF33A1", "#FFB833", "#8D33FF", "#33FFB3">>

----------------------------------------------------------------------------
(* Step 1: read_csv_data, lines 12-22 *)

\* np.unique: the distinct values, ascending
RECURSIVE np_unique(_)
np_unique(S) ==
  IF S = {} THEN <<>>
  ELSE LET m == SetMin(S) IN <<m>> \o np_unique(S \ {m})

\* a[a[:, 0] == v][:, 1:] : the rows whose first column is v, in their
\* order, without that column
RowsOf(a, v) ==
  LET sel == SelectSeq(a, LAMBDA r : r[1] = v)
  IN [k \in 1..Len(sel) |-> SubSeq(sel[k], 2, Len(sel[k]))]

\* np.genfromtxt returns a 2-D array only for two records or more: one
\* record gives a 1-D array of its 4 fields and no record an empty 1-D
\* array, and data_points[:, 0] of line 15 then raises IndexError
genfromtxt_is_2d(data) == Len(data) >= 2

read_csv_fails(data) == ~genfromtxt_is_2d(data)

read_csv_data(data_points) ==
  LET shape_ids == np_unique({r[1] : r \in Range(data_points)})
      OneShape(unique_shape) ==
        LET shape_data == RowsOf(data_points, unique_shape)
            group_ids == np_unique({r[1] : r \in Range(shape_data)})
        IN [g \in 1..Len(group_ids) |-> RowsOf(shape_data, group_ids[g])]
  IN [s \in 1..Len(shape_ids) |-> OneShape(shape_ids[s])]

----------------------------------------------------------------------------
(* Step 3: apply_convex_hull, lines 35-46 *)

\* twice the signed area of the triangle o, a, b: positive for a left turn
Cross(o, a, b) == (a[1] - o[1]) * (b[2] - o[2]) - (a[2] - o[2]) * (b[1] - o[1])

Dist2(a, b) == (a[1] - b[1]) * (a[1] - b[1]) + (a[2] - b[2]) * (a[2] - b[2])

\* Qhull cannot build an initial simplex when all points are collinear (or
\* all equal): ConvexHull raises QhullError
QhullFails(shape) == \A a, b, c \in Range(shape) : Cross(a, b, c) = 0

\* the lowest of the leftmost points, an extreme vertex
LowestLeft(P) ==
  CHOOSE p \in P : \A q \in P : p[1] < q[1] \/ (p[1] = q[1] /\ p[2] <= q[2])

\* the hull vertex that follows vertex p counterclockwise: every other point
\* is to the left of p -> q, or on the segment p q
HullNext(P, p) ==
  CHOOSE q \in P \ {p} :
    \A r \in P \ {p, q} :
      \/ Cross(p, q, r) > 0
      \/ Cross(p, q, r) = 0 /\ Dist2(p, r) < Dist2(p, q)

RECURSIVE HullWalk(_, _, _, _)
HullWalk(P, start, p, acc) ==
  LET q == HullNext(P, p)
  IN IF q = start THEN acc ELSE HullWalk(P, start, q, Append(acc, q))

\* shape[hull.vertices] for a 2-D input: the extreme points in
\* counterclockwise order (scipy's documented order for 2-D hulls), starting
\* at the vertex Qhull happens to list first, here the one `first` places
\* after the lowest-left vertex
ConvexHullPoints(shape, first) ==
  LET P == Range(shape)
      s == LowestLeft(P)
  IN Rotate(HullWalk(P, s, s, <<s>>), first)

\* lines 40-44: one sub-path
hull_or_original(shape, first) ==
  IF Len(shape) >= 3 THEN ConvexHullPoints(shape, first) ELSE shape

\* the sub-paths ConvexHull is called on
HullSites(groups) ==
  UNION {{<<s, g>> : g \in {n \in 1..Len(groups[s]) : Len(groups[s][n]) >= 3}} :
           s \in 1..Len(groups)}

apply_convex_hull_fails(groups) ==
  \E sg \in HullSites(groups) : QhullFails(groups[sg[1]][sg[2]])

\* a variant that drops the sub-paths too short for a hull
HullMutantDropShort(groups, first) ==
  [s \in 1..Len(groups) |->
     LET long == {g \in 1..Len(groups[s]) : Len(groups[s][g]) >= 3}
         idx == np_unique(long)
     IN [k \in 1..Len(idx) |->
           ConvexHullPoints(groups[s][idx[k]], first[<<s, idx[k]>>])]]

apply_convex_hull(groups, first) ==
  [s \in 1..Len(groups) |->
     [g \in 1..Len(groups[s]) |->
        hull_or_original(groups[s][g],
                         IF <<s, g>> \in DOMAIN first THEN first[<<s, g>>] ELSE 0)]]

----------------------------------------------------------------------------
(* Step 5: complete_shapes, lines 59-68 *)

\* numpy defaults of np.allclose: rtol = 1e-5 = 1 / RtolInv, atol = 1e-8 = 1 / AtolInv
RtolInv == 100000

AtolInv == 100000000

\* |a - b| <= atol + rtol * |b| for integers a, b, both sides times AtolInv:
\* |a - b| * AtolInv <= 1 + (AtolInv / RtolInv) * |b|
IsClose(a, b) == Abs(a - b) <= (1 + (AtolInv \div RtolInv) * Abs(b)) \div AtolInv

\* np.allclose(p, q): every coordinate close, q the reference
allclose(p, q) == \A c \in 1..2 : IsClose(p[c], q[c])

\* a variant that appends without the test of line 64
CloseMutantAlways(shape) == Append(shape, shape[1])

\* lines 64-65: one sub-path
close_shape(shape) ==
  IF ~allclose(shape[1], Last(shape)) THEN Append(shape, shape[1]) ELSE shape

complete_shapes(groups) ==
  [s \in 1..Len(groups) |-> [g \in 1..Len(groups[s]) |-> close_shape(groups[s][g])]]

----------------------------------------------------------------------------
(* Step 6: save_to_svg, lines 71-102 *)

AllPoints(groups) ==
  UNION {UNION {Range(groups[s][g]) : g \in 1..Len(groups[s])} : s \in 1..Len(groups)}

\* a variant whose running maximum starts at the first coordinate, not at 0
ExtentMutantNoFloor(groups, c) == SetMax({p[c] : p \in AllPoints(groups)})

\* lines 72-76: the running maximum starts at 0
extent(groups, c) == SetMax({0} \cup {p[c] : p \in AllPoints(groups)})

\* padding = 0.1, line 78, in tenths
PaddingTenths == 1

\* int(m + padding * m), line 79: int() truncates toward zero
padded(m) ==
  IF m >= 0 THEN ((10 + PaddingTenths) * m) \div 10
  ELSE -(((10 + PaddingTenths) * (-m)) \div 10)

\* a variant that closes every sub-path, without the test of line 90
PathMutantAlwaysZ(shape) ==
  <<<<"M", shape[1]>>>> \o [k \in 1..Len(shape) - 1 |-> <<"L", shape[k + 1]>>]
  \o <<<<"Z", <<>>>>>>

\* lines 87-91: the commands of one sub-path; ("Z", None) is <<"Z", <<>>>>
subpath_commands(shape) ==
  <<<<"M", shape[1]>>>> \o [k \in 1..Len(shape) - 1 |-> <<"L", shape[k + 1]>>]
  \o (IF ~allclose(shape[1], Last(shape)) THEN <<<<"Z", <<>>>>>> ELSE <<>>)

RECURSIVE path_commands(_)
path_commands(shapes) ==
  IF Len(shapes) = 0 THEN <<>>
  ELSE subpath_commands(Head(shapes)) \o path_commands(Tail(shapes))

\* line 85: colors[index % len(colors)] for the 0-based index - 1
color_of(groups, index) == colors[((index - 1) % Len(colors)) + 1]

\* lines 83-92: one path per shape
svg_paths_of(groups) ==
  [s \in 1..Len(groups) |->
     [d |-> path_commands(groups[s]), fill |-> color_of(groups, s)]]

\* the 1024 of line 98
RasterTarget == 1024

\* line 79 for coordinate c
canvas_extent(groups, c) == padded(extent(groups, c))

\* line 98 raises ZeroDivisionError when the smaller extent is 0
save_to_svg_fails(groups) ==
  Min2(canvas_extent(groups, 2), canvas_extent(groups, 1)) = 0

\* line 98
scale_factor_of(groups) ==
  Max2(1, RasterTarget \div Min2(canvas_extent(groups, 2), canvas_extent(groups, 1)))

----------------------------------------------------------------------------
(* The files a csv path can hold: sequences of records *)

\* one sub-path (ids 0, 0) with the given points
OneSubPath(ps) == [k \in 1..Len(ps) |-> <<0, 0, ps[k][1], ps[k][2]>>]

GridPts == {0, 1, 2} \X {0, 1, 2}

\* every sub-path of up to MaxPts grid points
GeometryInputs == {OneSubPath(ps) : ps \in SeqsUpTo(GridPts, MaxPts)}

\* the square with its centre (the unit square scaled by 2) in three point
\* orders, and a triangle with a point strictly inside
HullExamples ==
  { OneSubPath(<< <<0, 0>>, <<2, 0>>, <<2, 2>>, <<0, 2>>, <<1, 1>> >>),
    OneSubPath(<< <<1, 1>>, <<0, 0>>, <<2, 2>>, <<2, 0>>, <<0, 2>> >>),
    OneSubPath(<< <<0, 2>>, <<2, 2>>, <<1, 1>>, <<2, 0>>, <<0, 0>> >>),
    OneSubPath(<< <<0, 0>>, <<2, 1>>, <<1, 1>>, <<1, 2>> >>) }

LabelRecs == {<<s, g, q, q>> : s \in {0, 1}, g \in {0, 1}, q \in {1, 2}}

\* every file of up to MaxRecs labelled records, contiguous per group or not
GroupingInputs == SeqsUpTo(LabelRecs, MaxRecs)

LoaderExample == << <<0, 0, 1, 1>>, <<0, 0, 2, 2>>, <<1, 0, 5, 5>> >>

\* one shape of an open and a closed sub-path, their records interleaved
MixedExample == << <<0, 1, 1, 1>>, <<0, 0, 1, 1>>, <<0, 1, 1, 1>>, <<0, 0, 2, 2>> >>

\* n shapes of one point each, listed by descending shapeId
WideInputs == {[k \in 1..n |-> <<n - k, 0, k, k + 1>>] : n \in 1..MaxWide}

\* points with large, negative and zero coordinates
TolPts ==
  { <<100, 50>>, <<100000, 100000>>, <<100001, 100000>>, <<99999, 100000>>,
    <<-5, -3>>, <<-1, -20>>, <<0, 7>>, <<7, 0>> }

\* two-point sub-paths of them
TolInputs == {OneSubPath(ps) : ps \in [1..2 -> TolPts]}

Inputs ==
  GeometryInputs \cup HullExamples \cup GroupingInputs \cup {LoaderExample, MixedExample}
  \cup WideInputs \cup TolInputs

\* the collections the Loader can return
Collections == {read_csv_data(data) : data \in {d \in Inputs : ~read_csv_fails(d)}}

----------------------------------------------------------------------------
(* process_multiple_files, lines 105-124, and the script, lines 127-138 *)

Paths(n) == [k \in 1..n |-> k]

NoHistory ==
  [load_out |-> <<>>, reg_in |-> <<>>, reg_out |-> <<>>,
   close_in |-> <<>>, close_out |-> <<>>, export_in |-> <<>>]

\* a variant without the assert of line 135
LengthsMutantNoAssert(c, s) == TRUE

\* line 135
lengths_ok(c, s) == Len(c) = Len(s)

\* zip, line 106: as many pairs as the shorter list has
zip_len(c, s) == Min2(Len(c), Len(s))

\* a variant that closes before it regularizes
StageMutantCloseFirst(stage) ==
  CASE stage = "load" -> "preview"
    [] stage = "preview" -> "close"
    [] stage = "close" -> "inspect"
    [] stage = "inspect" -> "regularize"
    [] stage = "regularize" -> "export"

\* lines 109-124: the statement that follows each step of the loop body
stage_after(stage) ==
  CASE stage = "load" -> "preview"
    [] stage = "preview" -> "regularize"
    [] stage = "regularize" -> "inspect"
    [] stage = "inspect" -> "close"
    [] stage = "close" -> "export"

\* line 106: the next pair, or the end of the loop
after_pair(n) == IF n < zip_len(csv_paths, svg_paths) THEN "load" ELSE "done"

Init ==
  /\ csv_paths \in {Paths(n) : n \in 0..MaxPairs}
  /\ svg_paths \in {Paths(n) : n \in 0..MaxPairs}
  /\ pc = "assert"
  /\ error = "none"
  /\ i = 1
  /\ records = <<>>
  /\ shape_groups = <<>>
  /\ h = NoHistory
  /\ drawing = <<>>
  /\ max_width = 0
  /\ max_height = 0
  /\ scale_factor = 0
  /\ artifacts = {}
  /\ log = <<>>

\* an uncaught exception ends the script
Raise(name) == pc' = "failed" /\ error' = name

\* line 135, then the call of line 138
ModuleAssert ==
  /\ pc = "assert"
  /\ IF lengths_ok(csv_paths, svg_paths)
       THEN pc' = after_pair(0) /\ error' = error
       ELSE Raise("AssertionError")
  /\ UNCHANGED <<csv_paths, svg_paths, i, records, shape_groups, h, drawing,
                 max_width, max_height, scale_factor, artifacts, log>>

\* line 109
Load ==
  /\ pc = "load"
  /\ \E data \in Inputs :
       /\ records' = data
       /\ IF read_csv_fails(data)
            THEN /\ Raise("IndexError")
                 /\ shape_groups' = <<>>
                 /\ h' = NoHistory
            ELSE /\ pc' = stage_after("load")
                 /\ error' = error
                 /\ shape_groups' = read_csv_data(data)
                 /\ h' = [NoHistory EXCEPT !.load_out = read_csv_data(data)]
  /\ log' = Append(log, <<i, "load">>)
  /\ UNCHANGED <<csv_paths, svg_paths, i, drawing, max_width, max_height,
                 scale_factor, artifacts>>

\* line 112: plot_shapes only draws
Preview ==
  /\ pc = "preview"
  /\ pc' = stage_after("preview")
  /\ log' = Append(log, <<i, "preview">>)
  /\ UNCHANGED <<csv_paths, svg_paths, error, i, records, shape_groups, h, drawing,
                 max_width, max_height, scale_factor, artifacts>>

\* the first-listed vertex of each hull: any of them
FirstChoices(groups) ==
  [HullSites(groups) ->
     0..(SetMax({1} \cup {Len(groups[sg[1]][sg[2]]) : sg \in HullSites(groups)}) - 1)]

\* line 115
Regularize ==
  /\ pc = "regularize"
  /\ IF apply_convex_hull_fails(shape_groups)
       THEN /\ Raise("QhullError")
            /\ shape_groups' = shape_groups
            /\ h' = [h EXCEPT !.reg_in = shape_groups]
       ELSE \E first \in FirstChoices(shape_groups) :
            /\ pc' = stage_after("regularize")
            /\ error' = error
            /\ shape_groups' = apply_convex_hull(shape_groups, first)
            /\ h' = [h EXCEPT !.reg_in = shape_groups,
                              !.reg_out = apply_convex_hull(shape_groups, first)]
  /\ log' = Append(log, <<i, "regularize">>)
  /\ UNCHANGED <<csv_paths, svg_paths, i, records, drawing,
                 max_width, max_height, scale_factor, artifacts>>

\* line 118: symmetry_analysis only prints
Inspect ==
  /\ pc = "inspect"
  /\ pc' = stage_after("inspect")
  /\ log' = Append(log, <<i, "inspect">>)
  /\ UNCHANGED <<csv_paths, svg_paths, error, i, records, shape_groups, h, drawing,
                 max_width, max_height, scale_factor, artifacts>>

\* line 121
Close ==
  /\ pc = "close"
  /\ pc' = stage_after("close")
  /\ shape_groups' = complete_shapes(shape_groups)
  /\ h' = [h EXCEPT !.close_in = shape_groups,
                    !.close_out = complete_shapes(shape_groups)]
  /\ log' = Append(log, <<i, "close">>)
  /\ UNCHANGED <<csv_paths, svg_paths, error, i, records, drawing,
                 max_width, max_height, scale_factor, artifacts>>

\* line 124: the drawing is saved (line 95) before the scale factor is
\* computed (line 98) and the raster written (lines 99-102)
Export ==
  /\ pc = "export"
  /\ max_width' = canvas_extent(shape_groups, 1)
  /\ max_height' = canvas_extent(shape_groups, 2)
  /\ drawing' = svg_paths_of(shape_groups)
  /\ h' = [h EXCEPT !.export_in = shape_groups]
  /\ IF save_to_svg_fails(shape_groups)
       THEN /\ Raise("ZeroDivisionError")
            /\ scale_factor' = scale_factor
            /\ artifacts' = artifacts \cup {<<svg_paths[i], "svg">>}
       ELSE /\ pc' = "exported"
            /\ error' = error
            /\ scale_factor' = scale_factor_of(shape_groups)
            /\ artifacts' = artifacts \cup {<<svg_paths[i], "svg">>, <<svg_paths[i], "png">>}
  /\ log' = Append(log, <<i, "export">>)
  /\ UNCHANGED <<csv_paths, svg_paths, i, records, shape_groups>>

\* line 106: save_to_svg has returned and the for statement takes the next
\* pair or ends; the finished pair's values are dead (shape_groups is
\* rebound by line 109 before it is read again) and are dropped here
NextPair ==
  /\ pc = "exported"
  /\ pc' = after_pair(i)
  /\ i' = i + 1
  /\ records' = <<>>
  /\ shape_groups' = <<>>
  /\ h' = NoHistory
  /\ drawing' = <<>>
  /\ max_width' = 0
  /\ max_height' = 0
  /\ scale_factor' = 0
  /\ UNCHANGED <<csv_paths, svg_paths, error, artifacts, log>>

Next ==
  \/ ModuleAssert
  \/ Load
  \/ Preview
  \/ Regularize
  \/ Inspect
  \/ Close
  \/ Export
  \/ NextPair

Spec == Init /\ [][Next]_vars

\* complete_shapes and save_to_svg called on any collection, closed or not
InitCalls ==
  /\ csv_paths = Paths(1)
  /\ svg_paths = Paths(1)
  /\ pc \in {"close", "export"}
  /\ error = "none"
  /\ i = 1
  /\ records = <<>>
  /\ shape_groups \in Collections
  /\ h = NoHistory
  /\ drawing = <<>>
  /\ max_width = 0
  /\ max_height = 0
  /\ scale_factor = 0
  /\ artifacts = {}
  /\ log = <<>>

NextCalls ==
  \/ Close
  \/ Export

SpecCalls == InitCalls /\ [][NextCalls]_vars

----------------------------------------------------------------------------
(* Properties *)

\* the points of sub-path g of shape s, as the records of a file give them
PointsOfGroup(data, sid, gid) ==
  LET sel == SelectSeq(data, LAMBDA r : r[1] = sid /\ r[2] = gid)
  IN [k \in 1..Len(sel) |-> <<sel[k][3], sel[k][4]>>]

\* the n-th smallest element of a set of numbers
NthSmallest(S, n) == CHOOSE v \in S : Cardinality({w \in S : w < v}) = n - 1

ShapeIdsOf(data) == {r[1] : r \in Range(data)}

SubIdsOf(data, sid) == {r[2] : r \in {q \in Range(data) : q[1] = sid}}

\* out is the grouping of data by ascending shapeId, then ascending
\* subPathId, each group's points in record order
GroupedAsClaimed(data, out) ==
  /\ Len(out) = Cardinality(ShapeIdsOf(data))
  /\ \A s \in 1..Len(out) :
       LET sid == NthSmallest(ShapeIdsOf(data), s)
       IN /\ Len(out[s]) = Cardinality(SubIdsOf(data, sid))
          /\ \A g \in 1..Len(out[s]) :
               out[s][g] = PointsOfGroup(data, sid, NthSmallest(SubIdsOf(data, sid), g))

\* a file has been read for the current pair
LoadRan == log # <<>> /\ pc \notin {"load", "done"}

SameStructure(a, b) ==
  /\ Len(a) = Len(b)
  /\ \A s \in 1..Len(a) : Len(a[s]) = Len(b[s])

\* every sub-path of a holds only points of the sub-path of b at its index
PointsFromSameIndex(a, b) ==
  \A s \in 1..Len(a) : \A g \in 1..Len(a[s]) : Range(a[s][g]) \subseteq Range(b[s][g])

IsPrefix(a, b) == Len(a) <= Len(b) /\ SubSeq(b, 1, Len(a)) = a

(* C1: the Closer turns every sub-path of 2 or more points whose first and
   last points differ beyond the tolerance into the sub-path followed by one
   copy of its first point, and returns every other sub-path as it is; every
   sub-path of 2 or more points it returns is closed. *)
C1_CloserContract ==
  h.close_in # <<>> =>
    /\ SameStructure(h.close_out, h.close_in)
    /\ \A s \in 1..Len(h.close_in) : \A g \in 1..Len(h.close_in[s]) :
         LET S == h.close_in[s][g]
             O == h.close_out[s][g]
         IN /\ (Len(S) >= 2 /\ ~allclose(S[1], Last(S))) =>
                 /\ Len(O) = Len(S) + 1
                 /\ Last(O) = O[1]
                 /\ SubSeq(O, 1, Len(S)) = S
            /\ (Len(S) < 2 \/ allclose(S[1], Last(S))) => O = S
            /\ Len(S) >= 2 => allclose(O[1], Last(O))

\* the Closer has appended a point to an open sub-path and has left alone a
\* sub-path whose ends differ by less than the tolerance
C1_Witness ==
  /\ h.close_in # <<>>
  /\ \E s \in 1..Len(h.close_in) : \E g \in 1..Len(h.close_in[s]) :
       LET S == h.close_in[s][g]
       IN /\ Len(S) >= 2
          /\ ~allclose(S[1], Last(S))
          /\ h.close_out[s][g] = Append(S, S[1])

\* a sub-path whose ends are unequal but within the tolerance is unchanged
C1_ToleranceCase ==
  /\ h.close_in # <<>>
  /\ \E s \in 1..Len(h.close_in) : \E g \in 1..Len(h.close_in[s]) :
       LET S == h.close_in[s][g]
       IN /\ Len(S) >= 2
          /\ S[1] # Last(S)
          /\ h.close_out[s][g] = S

\* p is on the segment a b
OnSegment(p, a, b) ==
  /\ Cross(a, b, p) = 0
  /\ (p[1] - a[1]) * (p[1] - b[1]) + (p[2] - a[2]) * (p[2] - b[2]) <= 0

\* p is in the closed triangle a b c, which has an area
InTriangle(p, a, b, c) ==
  /\ Cross(a, b, c) # 0
  /\ LET d1 == Cross(a, b, p)
         d2 == Cross(b, c, p)
         d3 == Cross(c, a, p)
     IN ~((d1 < 0 \/ d2 < 0 \/ d3 < 0) /\ (d1 > 0 \/ d2 > 0 \/ d3 > 0))

\* p is in the convex hull of Q (Caratheodory: of at most three points of Q)
InHull(p, Q) ==
  \/ p \in Q
  \/ \E a, b \in Q : OnSegment(p, a, b)
  \/ \E a, b, c \in Q : InTriangle(p, a, b, c)

ExtremePoints(P) == {p \in P : ~InHull(p, P \ {p})}

\* O lists points counterclockwise around a strictly convex polygon: all
\* other points of O are strictly to the left of every edge
TracesConvexBoundary(O) ==
  \A k \in 1..Len(O) :
    LET a == O[k]
        b == O[(k % Len(O)) + 1]
    IN \A r \in Range(O) \ {a, b} : Cross(a, b, r) > 0

\* O is the hull of S as claimed
IsHullOf(O, S) ==
  /\ Range(O) \subseteq Range(S)
  /\ Range(O) = ExtremePoints(Range(S))
  /\ Cardinality(Range(O)) = Len(O)
  /\ TracesConvexBoundary(O)

Collinear(S) == \A a, b, c \in Range(S) : Cross(a, b, c) = 0

(* C2: the Regularizer gives, for every sub-path of 3 or more points it is
   run on, the extreme vertices of the sub-path's hull, a subset of its
   points, in the order of the convex boundary. *)
C2_HullOfEverySubPath ==
  h.reg_in # <<>> =>
    /\ SameStructure(h.reg_out, h.reg_in)
    /\ \A s \in 1..Len(h.reg_in) : \A g \in 1..Len(h.reg_in[s]) :
         Len(h.reg_in[s][g]) >= 3 => IsHullOf(h.reg_out[s][g], h.reg_in[s][g])

\* the same for the calls of the Regularizer that return
HullWhenReturned ==
  h.reg_out # <<>> =>
    /\ SameStructure(h.reg_out, h.reg_in)
    /\ \A s \in 1..Len(h.reg_in) : \A g \in 1..Len(h.reg_in[s]) :
         Len(h.reg_in[s][g]) >= 3 => IsHullOf(h.reg_out[s][g], h.reg_in[s][g])

SquareCorners == { <<0, 0>>, <<2, 0>>, <<2, 2>>, <<0, 2>> }

\* the square with its centre has been reduced to its 4 corners
SquareReduced ==
  /\ h.reg_out # <<>>
  /\ Len(h.reg_in[1][1]) = 5
  /\ Range(h.reg_in[1][1]) = SquareCorners \cup { <<1, 1>> }
  /\ Len(h.reg_out[1][1]) = 4
  /\ Range(h.reg_out[1][1]) = SquareCorners

(* C3: when a sub-path of 3 or more points is all collinear or all
   duplicates, the Regularizer catches the hull failure, passes the sub-path
   through unchanged and the pair's pipeline goes on. *)
C3_DegenerateHullRecovered ==
  (/\ h.reg_in # <<>>
   /\ \E s \in 1..Len(h.reg_in) : \E g \in 1..Len(h.reg_in[s]) :
        Len(h.reg_in[s][g]) >= 3 /\ Collinear(h.reg_in[s][g])) =>
    /\ error # "QhullError"
    /\ SameStructure(h.reg_out, h.reg_in)
    /\ \A s \in 1..Len(h.reg_in) : \A g \in 1..Len(h.reg_in[s]) :
         (Len(h.reg_in[s][g]) >= 3 /\ Collinear(h.reg_in[s][g])) =>
           h.reg_out[s][g] = h.reg_in[s][g]

(* C4: for every sequence of records the Loader returns one shape per
   distinct shapeId, ascending, each with one sub-path per distinct
   subPathId, ascending, each holding the points of its records in record
   order. *)
C4_LoaderGroups ==
  (LoadRan /\ records # <<>>) =>
    (error # "IndexError" /\ GroupedAsClaimed(records, h.load_out))

\* the same for files of two records or more
LoaderGroupsFromTwoRecords ==
  (LoadRan /\ Len(records) >= 2) =>
    (error # "IndexError" /\ GroupedAsClaimed(records, h.load_out))

\* the loader example: 2 shapes, [[(1,1),(2,2)]] and [[(5,5)]]
LoaderExampleLoaded ==
  /\ records = LoaderExample
  /\ h.load_out = << << << <<1, 1>>, <<2, 2>> >> >>, << << <<5, 5>> >> >> >>

(* C5: with lists of different lengths the run fails with the configuration
   error before any stage of any pair runs and before any artifact is
   written. *)
C5_MismatchFailsFirst ==
  Len(csv_paths) # Len(svg_paths) =>
    /\ pc \in {"assert", "failed"}
    /\ pc = "failed" => error = "AssertionError"
    /\ log = <<>>
    /\ artifacts = {}

C5_Witness ==
  /\ Len(csv_paths) # Len(svg_paths)
  /\ Min2(Len(csv_paths), Len(svg_paths)) >= 1
  /\ pc = "failed"
  /\ error = "AssertionError"

StageOrder == <<"load", "preview", "regularize", "inspect", "close", "export">>

(* C6: the stages that have run are, in order, load, preview, regularize,
   inspect, close, export of pair 1, then of pair 2, and so on, none twice
   and none before the stage before it; each data stage received the
   collection the previous data stage returned; a run that ends normally has
   run all six stages of every pair. *)
C6_StageOrder ==
  /\ \A k \in 1..Len(log) :
       log[k] = <<((k - 1) \div Len(StageOrder)) + 1,
                  StageOrder[((k - 1) % Len(StageOrder)) + 1]>>
  /\ Len(log) <= Len(StageOrder) * Len(csv_paths)
  /\ pc = "done" => Len(log) = Len(StageOrder) * Len(csv_paths)
  /\ pc \in Range(StageOrder) =>
       /\ pc = StageOrder[(Len(log) % Len(StageOrder)) + 1]
       /\ i = (Len(log) \div Len(StageOrder)) + 1
  /\ pc = "exported" => (log # <<>> /\ Last(log) = <<i, "export">>)
  /\ h.reg_in # <<>> => h.reg_in = h.load_out
  /\ h.close_in # <<>> => h.close_in = h.reg_out
  /\ h.export_in # <<>> => h.export_in = h.close_out

\* two pairs have gone through all six stages
C6_Witness ==
  /\ pc = "done"
  /\ Len(log) >= 2 * Len(StageOrder)
  /\ log[Len(StageOrder)] = <<1, "export">>
  /\ log[Len(StageOrder) + 1] = <<2, "load">>

----------------------------------------------------------------------------
MaxCoord(groups, c) == SetMax({p[c] : p \in AllPoints(groups)})

\* n is m + 10% of m, truncated toward zero
IsPaddedTruncated(n, m) ==
  IF m >= 0 THEN 10 * n <= 11 * m /\ 11 * m < 10 * (n + 1)
  ELSE 10 * n >= 11 * m /\ 11 * m > 10 * (n - 1)

(* C7, as stated: maxWidth and maxHeight are the largest x and the largest y
   of the collection, also when every coordinate is negative, each increased
   by 10% and truncated. *)
C7_ExtentIsMaxCoordinate ==
  h.export_in # <<>> =>
    /\ IsPaddedTruncated(max_width, MaxCoord(h.export_in, 1))
    /\ IsPaddedTruncated(max_height, MaxCoord(h.export_in, 2))

(* C7, amended: maxWidth and maxHeight are the larger of 0 and the largest x,
   and the larger of 0 and the largest y, each increased by 10% and
   truncated. *)
C7_ExtentIsMaxCoordinateOrZero ==
  h.export_in # <<>> =>
    /\ IsPaddedTruncated(max_width, Max2(0, MaxCoord(h.export_in, 1)))
    /\ IsPaddedTruncated(max_height, Max2(0, MaxCoord(h.export_in, 2)))

\* max x = 100 and max y = 50 have given 110 and 55
C7_Witness ==
  /\ h.export_in # <<>>
  /\ MaxCoord(h.export_in, 1) = 100
  /\ MaxCoord(h.export_in, 2) = 50
  /\ max_width = 110
  /\ max_height = 55

\* every coordinate is negative and the extent is 0
C7_NegativeCase ==
  /\ h.export_in # <<>>
  /\ MaxCoord(h.export_in, 1) < 0
  /\ MaxCoord(h.export_in, 2) < 0
  /\ max_width = 0
  /\ max_height = 0

\* the points the commands of a path name
PointsOfPath(d) == {d[k][2] : k \in {n \in 1..Len(d) : d[n][1] # "Z"}}

(* C8: the collection a pair's pipeline holds always has the number of shapes
   and, per shape, the number of sub-paths the Loader returned, and each of
   its sub-paths holds only points of the Loader's sub-path at the same
   index; the same holds between the input and the output of the Regularizer
   and of the Closer; the export draws one path per shape, from that shape's
   points of the file, in the colour of the shape's Loader index mod 7. *)
C8_StructureStable ==
  h.load_out # <<>> =>
    /\ SameStructure(shape_groups, h.load_out)
    /\ PointsFromSameIndex(shape_groups, h.load_out)
    /\ h.reg_out # <<>> =>
         (SameStructure(h.reg_out, h.reg_in) /\ PointsFromSameIndex(h.reg_out, h.reg_in))
    /\ h.close_out # <<>> =>
         /\ SameStructure(h.close_out, h.close_in)
         /\ PointsFromSameIndex(h.close_out, h.close_in)
         /\ \A s \in 1..Len(h.close_in) : \A g \in 1..Len(h.close_in[s]) :
              IsPrefix(h.close_in[s][g], h.close_out[s][g])
    /\ h.export_in # <<>> =>
         /\ Len(drawing) = Cardinality(ShapeIdsOf(records))
         /\ \A s \in 1..Len(drawing) :
              /\ drawing[s].fill = colors[((s - 1) % 7) + 1]
              /\ PointsOfPath(drawing[s].d) \subseteq
                   {<<r[3], r[4]>> :
                      r \in {q \in Range(records) :
                               q[1] = NthSmallest(ShapeIdsOf(records), s)}}

\* more shapes than colours have been exported, from a file that lists them
\* in another order than the Loader's
C8_Witness ==
  /\ pc = "exported"
  /\ Len(drawing) > 7
  /\ records[1][1] # NthSmallest(ShapeIdsOf(records), 1)
  /\ drawing[8].fill = drawing[1].fill

\* a hull has dropped a point and the Closer has added one, in a collection
\* of several shapes
C8_ReducedCase ==
  /\ h.close_out # <<>>
  /\ \E s \in 1..Len(h.reg_in) : \E g \in 1..Len(h.reg_in[s]) :
       /\ Len(h.reg_out[s][g]) < Len(h.reg_in[s][g])
       /\ Len(h.close_out[s][g]) = Len(h.reg_out[s][g]) + 1

\* the commands before those of sub-path g in the path of a shape
RECURSIVE CommandsBefore(_, _)
CommandsBefore(shape, g) ==
  IF g = 1 THEN 0
  ELSE CommandsBefore(shape, g - 1) + Len(shape[g - 1])
       + (IF allclose(shape[g - 1][1], Last(shape[g - 1])) THEN 0 ELSE 1)

(* C9: the export emits one path per shape; the path holds, for each sub-path
   in order, a move-to to its first point, a line-to to each later point, and
   then a close-path exactly when its first and last points do not match; a
   sub-path that went through the Closer gets no close-path. *)
C9_PathCommands ==
  h.export_in # <<>> =>
    /\ Len(drawing) = Len(h.export_in)
    /\ \A s \in 1..Len(drawing) :
         LET shape == h.export_in[s]
             d == drawing[s].d
         IN /\ Len(d) = CommandsBefore(shape, Len(shape) + 1)
            /\ \A g \in 1..Len(shape) :
                 LET off == CommandsBefore(shape, g)
                     S == shape[g]
                 IN /\ d[off + 1] = <<"M", S[1]>>
                    /\ \A k \in 2..Len(S) : d[off + k] = <<"L", S[k]>>
                    /\ ~allclose(S[1], Last(S)) => d[off + Len(S) + 1] = <<"Z", <<>>>>
            /\ h.close_in # <<>> => \A k \in 1..Len(d) : d[k][1] # "Z"

\* a shape of several sub-paths, exported without the Closer, has a path with
\* a close-path for an open sub-path and none for a closed one
C9_Witness ==
  /\ h.export_in # <<>>
  /\ h.close_in = <<>>
  /\ \E s \in 1..Len(drawing) :
       /\ Len(h.export_in[s]) >= 2
       /\ \E k \in 1..Len(drawing[s].d) : drawing[s].d[k][1] = "Z"
       /\ \E g \in 1..Len(h.export_in[s]) :
            /\ Len(h.export_in[s][g]) >= 2
            /\ allclose(h.export_in[s][g][1], Last(h.export_in[s][g]))

\* a collection that went through the Closer has been exported
C9_ClosedCase ==
  /\ h.export_in # <<>>
  /\ h.close_in # <<>>
  /\ \E s \in 1..Len(h.export_in) : \E g \in 1..Len(h.export_in[s]) :
       Len(h.export_in[s][g]) >= 3

(* C10: the export of every collection, also of one whose padded extent is 0
   in one dimension, computes scaleFactor = max(1, 1024 // min(maxWidth,
   maxHeight)) >= 1 and ends without a division by zero. *)
C10_ScaleFactorAlways ==
  h.export_in # <<>> =>
    /\ error # "ZeroDivisionError"
    /\ scale_factor >= 1
    /\ Min2(max_width, max_height) > 0 =>
         scale_factor = Max2(1, 1024 \div Min2(max_width, max_height))

\* the same for the extents that are not 0
ScaleFactorOnPositiveExtent ==
  (h.export_in # <<>> /\ Min2(max_width, max_height) > 0) =>
    /\ error = "none"
    /\ scale_factor = Max2(1, 1024 \div Min2(max_width, max_height))
    /\ <<svg_paths[i], "png">> \in artifacts

====
